---- MODULE Spec2Model ----
(***************************************************************************)
(* Model of the bolt-backed user/session repository                        *)
(* (pkg/service/adapters/auth/repository_user.go).                         *)
(*                                                                         *)
(* Callers are concurrent processes.  Every mutating operation runs its    *)
(* closure inside db.Update: bbolt takes the exclusive writer lock, runs   *)
(* the closure against the committed bucket, and then commits the staged   *)
(* Put (closure returned nil) or rolls it back (closure returned an error, *)
(* or the commit itself failed).  Errors are modelled as the chain of      *)
(* messages errors.Wrap builds, outermost message first; <<>> is nil.      *)
(***************************************************************************)
EXTENDS Integers, Sequences, FiniteSets, TLC

\* ---------------------------------------------------------------- bounds
NumProcs == 2
MaxCalls == 4
MaxClock == 2

Procs == 1..NumProcs
NoProc == 0

\* ---------------------------------------------------------------- inputs
\* Usernames and passwords are valid UTF-8 text; "" is the empty string.
\* Only equality of passwords matters, so users register with "secret" and
\* log in with either password.
Usernames == {"alice", "bob"}
Passwords == {"secret", "wrong"}
UsernameArgs == Usernames \cup {""}
PasswordArgs == Passwords \cup {""}
RegisterPasswordArgs == {"secret", ""}

VARIABLES
  store,     \* the "users" bucket: key -> serialized user record
  writer,    \* process holding bbolt's writer lock, NoProc when free
  pc,        \* per process: "idle" | "register" | "login" | "check" | "commit"
  call,      \* per process: the call in progress, NoCall when idle
  tx,        \* per process: what its transaction closure staged / returned
  ret,       \* what the step just taken returned to its caller, and for
             \*   which call; NoRet when the step returned nothing
  clock,     \* the latest time time.Now() has returned
  minted,    \* the tokens the generator has minted
  calls,     \* number of calls made so far
  okLogins,  \* history: username and returned token of every successful
             \*          Login, in commit order
  registered \* history: credentials of every successful RegisterInitial,
             \*          in commit order

hist == <<okLogins, registered>>
vars == <<store, writer, pc, call, tx, ret, clock, minted, calls, hist>>

\* ---------------------------------------------------------------- errors
NoErr == <<>>
New(msg) == <<msg>>
Wrap(err, msg) == <<msg>> \o err
ErrUnauthorized == <<"unauthorized">>

\* ------------------------------------------------------- collaborators
\* PasswordHasher: Compare accepts exactly the password that was hashed.
Hash(password) == <<"hash", password>>
Compare(hashedPassword, password) ==
  IF hashedPassword = Hash(password) THEN NoErr ELSE New("mismatch")

\* AccessTokenGenerator: a stateless token carries the username it is bound
\* to; n distinguishes tokens minted for the same username.  Tokens with an
\* empty user part do not resolve.
Token(u, n) == [user |-> u, n |-> n]
EmptyToken == Token("", 0)
GarbageToken == Token("", 1)
Generate(username, n) == Token(username, n)
Resolves(token) == token.user # ""
GetUsername(token) == token.user

\* ------------------------------------------------------------ data model
ZeroTime == 0
SessionStamped(t) == [Token |-> t, LastSeen |-> 1]
Session(t) == [Token |-> t, LastSeen |-> ZeroTime]
User(username, passwordHash) ==
  [Username |-> username, Password |-> passwordHash, Sessions |-> <<>>]

\* encoding/json: strings are written as text (invalid UTF-8 is coerced to
\* U+FFFD), []byte as base64, time.Time as RFC 3339.
RawInvalid == "al\\xff"
Replaced == "al\\ufffd"
Sanitize(s) == IF s = RawInvalid THEN Replaced ELSE s
MarshalToken(t) == [user |-> Sanitize(t.user), n |-> t.n]
MarshalSession(s) ==
  [Token |-> MarshalToken(s.Token), LastSeen |-> <<"rfc3339", s.LastSeen>>]
MarshalOmitsUsername(u) ==
  [username |-> "",
   password |-> <<"base64", u.Password>>,
   Sessions |-> [i \in 1..Len(u.Sessions) |-> MarshalSession(u.Sessions[i])]]
Marshal(u) ==
  [username |-> Sanitize(u.Username),
   password |-> <<"base64", u.Password>>,
   Sessions |-> [i \in 1..Len(u.Sessions) |-> MarshalSession(u.Sessions[i])]]
UnmarshalRawPassword(j) ==
  [Username |-> j.username,
   Password |-> j.password,
   Sessions |-> [i \in 1..Len(j.Sessions) |->
                   [Token |-> j.Sessions[i].Token,
                    LastSeen |-> j.Sessions[i].LastSeen[2]]]]
UnmarshalSession(j) == [Token |-> j.Token, LastSeen |-> j.LastSeen[2]]
Unmarshal(j) ==
  [Username |-> j.username,
   Password |-> j.password[2],
   Sessions |-> [i \in 1..Len(j.Sessions) |-> UnmarshalSession(j.Sessions[i])]]

\* ----------------------------------------------------------------- store
EmptyBucket == [k \in {} |-> 0]
bucketIsEmptyOffByOne(b) == Cardinality(DOMAIN b) <= 1
bucketIsEmpty(b) == DOMAIN b = {}
KeyN(b) == Cardinality(DOMAIN b)
Put(b, key, value) == [k \in DOMAIN b \cup {key} |-> IF k = key THEN value ELSE b[k]]
NoPut == {}
Staged(key, value) == {[key |-> key, value |-> value]}
Apply(b, puts) ==
  IF puts = {} THEN b
  ELSE LET w == CHOOSE w \in puts : TRUE IN Put(b, w.key, w.value)

validateUsernameOnly(username, password) ==
  IF username = "" THEN New("username can't be empty") ELSE NoErr
validate(username, password) ==
  IF username = "" THEN New("username can't be empty")
  ELSE IF password = "" THEN New("password can't be empty")
  ELSE NoErr

getUser(b, username) == Unmarshal(b[username])
putUser(u) == Staged(u.Username, Marshal(u))

\* Begin of db.Update: take the writer lock (blocks while another holds it).
BeginNoLock(p) == writer' = p
Begin(p) == writer = NoProc /\ writer' = p
\* End of db.Update (commit or rollback): release the writer lock.
Release(p) == writer' = (IF writer = p THEN NoProc ELSE writer)

\* ---------------------------------------------------------- bookkeeping
NoCall == [op |-> "none", username |-> "", password |-> "",
           token |-> EmptyToken]
NoTx == [puts |-> NoPut, err |-> NoErr, token |-> EmptyToken, user |-> "",
         cause |-> ""]
NoRet == [call |-> NoCall, err |-> NoErr, token |-> EmptyToken,
          user |-> "", count |-> 0, cause |-> ""]
Result(c, err, token, user, count, cause) ==
  [call |-> c, err |-> err, token |-> token, user |-> user,
   count |-> count, cause |-> cause]
NewCall(op, username, password, token) ==
  [op |-> op, username |-> username, password |-> password,
   token |-> token]

Init ==
  /\ store = EmptyBucket
  /\ writer = NoProc
  /\ pc = [p \in Procs |-> "idle"]
  /\ call = [p \in Procs |-> NoCall]
  /\ tx = [p \in Procs |-> NoTx]
  /\ ret = NoRet
  /\ clock = 1
  /\ minted = {}
  /\ calls = 0
  /\ okLogins = <<>>
  /\ registered = <<>>

\* Callers are interchangeable: a new call takes the lowest idle process.
CanCall(p) ==
  /\ calls < MaxCalls
  /\ pc[p] = "idle"
  /\ \A q \in Procs : q < p => pc[q] # "idle"

\* Return to the caller without having opened a write transaction.
ReturnEarly(p, r) ==
  /\ ret' = r
  /\ calls' = calls + 1
  /\ UNCHANGED <<store, writer, pc, call, tx, clock, minted, hist>>

\* Go on to the transaction.
Proceed(p, c, next) ==
  /\ call' = [call EXCEPT ![p] = c]
  /\ pc' = [pc EXCEPT ![p] = next]
  /\ ret' = NoRet
  /\ calls' = calls + 1
  /\ UNCHANGED <<store, writer, tx, clock, minted, hist>>

\* ------------------------------------------------------- RegisterInitial
\* Lines 69-87: validate, hash, build and marshal the record.
RegisterInitial(p, username, password, hashOK) ==
  /\ CanCall(p)
  /\ validate(username, password) # NoErr => hashOK
  /\ LET c == NewCall("RegisterInitial", username, password, EmptyToken)
         verr == validate(username, password)
     IN IF verr # NoErr
          THEN ReturnEarly(p, Result(c, Wrap(verr, "invalid parameters"),
                                        EmptyToken, "", 0, "validation"))
        ELSE IF ~hashOK
          THEN ReturnEarly(p, Result(c, Wrap(New("hash error"),
                                                "hashing the password failed"),
                                        EmptyToken, "", 0, "hash"))
        ELSE Proceed(p, c, "register")

\* Lines 89-95: the closure, run under the writer lock.
RegisterInitialTx(p) ==
  /\ pc[p] = "register"
  /\ Begin(p)
  /\ LET u == User(call[p].username, Hash(call[p].password))
         j == Marshal(u)
     IN tx' = [tx EXCEPT ![p] =
                 IF ~bucketIsEmpty(store)
                   THEN [NoTx EXCEPT !.err = New("there are existing users"),
                                     !.cause = "conflict"]
                   ELSE [NoTx EXCEPT !.puts = Staged(u.Username, j)]]
  /\ pc' = [pc EXCEPT ![p] = "commit"]
  /\ ret' = NoRet
  /\ UNCHANGED <<store, call, clock, minted, calls, hist>>

\* ----------------------------------------------------------------- Login
\* Lines 98-101: validate.
Login(p, username, password) ==
  /\ CanCall(p)
  /\ LET c == NewCall("Login", username, password, EmptyToken)
         verr == validate(username, password)
     IN IF verr # NoErr
          THEN ReturnEarly(p, Result(c, Wrap(verr, "invalid parameters"),
                                        EmptyToken, "", 0, "validation"))
        ELSE Proceed(p, c, "login")

LoginBodyReplaces(b, username, password, genOK, n) ==
  IF username \notin DOMAIN b
    THEN [NoTx EXCEPT !.err = New("user does not exist"), !.cause = "nouser"]
  ELSE LET u == Unmarshal(b[username])
           cerr == Compare(u.Password, password)
           t == Generate(username, n)
           u2 == [u EXCEPT !.Sessions = <<Session(t)>>]
       IN IF cerr # NoErr
            THEN [NoTx EXCEPT !.err = Wrap(cerr, "invalid credentials"),
                              !.cause = "badpw"]
          ELSE IF ~genOK
            THEN [NoTx EXCEPT !.err = Wrap(New("generate error"),
                                           "could not create an access token"),
                              !.cause = "gen"]
          ELSE [NoTx EXCEPT !.puts = Staged(username, Marshal(u2)),
                            !.token = t]

\* Lines 105-138: the closure.
LoginBody(b, username, password, genOK, n) ==
  IF username \notin DOMAIN b
    THEN [NoTx EXCEPT !.err = New("user does not exist"), !.cause = "nouser"]
  ELSE LET u == Unmarshal(b[username])
           cerr == Compare(u.Password, password)
           t == Generate(username, n)
           u2 == [u EXCEPT !.Sessions = Append(u.Sessions, Session(t))]
       IN IF cerr # NoErr
            THEN [NoTx EXCEPT !.err = Wrap(cerr, "invalid credentials"),
                              !.cause = "badpw"]
          ELSE IF ~genOK
            THEN [NoTx EXCEPT !.err = Wrap(New("generate error"),
                                           "could not create an access token"),
                              !.cause = "gen"]
          ELSE [NoTx EXCEPT !.puts = Staged(username, Marshal(u2)),
                            !.token = t]

\* The generator mints a token no earlier Generate returned.
FreshN == {Cardinality(minted) + 1}
\* A generator that may return a token again (say, one computed from the
\* username alone): nothing in the repository depends on freshness.
AnyN == 1..(Cardinality(minted) + 1)

LoginTx(p, genOK, n) ==
  /\ pc[p] = "login"
  /\ Begin(p)
  /\ LET r == LoginBody(store, call[p].username, call[p].password, genOK, n)
     IN /\ tx' = [tx EXCEPT ![p] = r]
        /\ minted' = IF r.token # EmptyToken THEN minted \cup {r.token}
                     ELSE minted
  /\ pc' = [pc EXCEPT ![p] = "commit"]
  /\ ret' = NoRet
  /\ UNCHANGED <<store, call, clock, calls, hist>>

\* ------------------------------------------------------ CheckAccessToken
CheckAccessTokenIgnoresErr(p, token) ==
  /\ CanCall(p)
  /\ Proceed(p, NewCall("CheckAccessToken", "", "", token), "check")

\* Lines 147-152: resolve the token.
CheckAccessToken(p, token) ==
  /\ CanCall(p)
  /\ LET c == NewCall("CheckAccessToken", "", "", token)
     IN IF ~Resolves(token)
          THEN ReturnEarly(p, Result(c, ErrUnauthorized, EmptyToken, "", 0,
                                        "unresolvable"))
        ELSE Proceed(p, c, "check")

FindSessionFallsBack(sessions, token) ==
  IF \E i \in 1..Len(sessions) : sessions[i].Token = token
    THEN CHOOSE i \in 1..Len(sessions) :
           /\ sessions[i].Token = token
           /\ \A k \in 1..(i - 1) : sessions[k].Token # token
    ELSE Len(sessions)

FindSessionLast(sessions, token) ==
  IF \E i \in 1..Len(sessions) : sessions[i].Token = token
    THEN CHOOSE i \in 1..Len(sessions) :
           /\ sessions[i].Token = token
           /\ \A k \in (i + 1)..Len(sessions) : sessions[k].Token # token
    ELSE 0

\* Lines 168-174: index of the first session holding the token, 0 if none.
FindSession(sessions, token) ==
  IF \E i \in 1..Len(sessions) : sessions[i].Token = token
    THEN CHOOSE i \in 1..Len(sessions) :
           /\ sessions[i].Token = token
           /\ \A k \in 1..(i - 1) : sessions[k].Token # token
    ELSE 0

CheckAccessTokenBodyAppends(b, token, now) ==
  LET username == GetUsername(token) IN
  IF username \notin DOMAIN b
    THEN [NoTx EXCEPT !.err = ErrUnauthorized, !.cause = "nouser"]
  ELSE LET u == getUser(b, username)
           i == FindSession(u.Sessions, token)
           u2 == [u EXCEPT !.Sessions =
                    Append(u.Sessions, [Token |-> token, LastSeen |-> now])]
       IN IF i = 0
            THEN [NoTx EXCEPT !.err = New("invalid token"),
                              !.cause = "nosession"]
          ELSE [NoTx EXCEPT !.puts = putUser(u2), !.user = u2.Username]

CheckAccessTokenBodyUpserts(b, token, now) ==
  LET username == GetUsername(token) IN
  IF username \notin DOMAIN b
    THEN [NoTx EXCEPT !.err = ErrUnauthorized, !.cause = "nouser"]
  ELSE LET u == getUser(b, username)
           i == FindSession(u.Sessions, token)
           u2 == IF i = 0
                   THEN [u EXCEPT !.Sessions =
                           Append(u.Sessions, [Token |-> token, LastSeen |-> now])]
                   ELSE [u EXCEPT !.Sessions[i].LastSeen = now]
       IN [NoTx EXCEPT !.puts = putUser(u2), !.user = u2.Username]

\* Lines 155-176: the closure.
CheckAccessTokenBody(b, token, now) ==
  LET username == GetUsername(token) IN
  IF username \notin DOMAIN b
    THEN [NoTx EXCEPT !.err = ErrUnauthorized, !.cause = "nouser"]
  ELSE LET u == getUser(b, username)
           i == FindSession(u.Sessions, token)
           u2 == [u EXCEPT !.Sessions[i].LastSeen = now]
       IN IF i = 0
            THEN [NoTx EXCEPT !.err = New("invalid token"),
                              !.cause = "nosession"]
          ELSE [NoTx EXCEPT !.puts = putUser(u2), !.user = u2.Username]

\* time.Now() (line 170) never goes back: now is the clock or later.
CheckAccessTokenTx(p, now) ==
  /\ pc[p] = "check"
  /\ Begin(p)
  /\ tx' = [tx EXCEPT ![p] = CheckAccessTokenBody(store, call[p].token, now)]
  /\ clock' = now
  /\ pc' = [pc EXCEPT ![p] = "commit"]
  /\ ret' = NoRet
  /\ UNCHANGED <<store, call, minted, calls, hist>>

\* ---------------------------------------------------------------- Logout
LogoutRemovesSession(p, token) ==
  /\ CanCall(p)
  /\ LET c == NewCall("Logout", "", "", token)
         u == GetUsername(token)
     IN /\ ret' = Result(c, NoErr, EmptyToken, "", 0, "")
        /\ store' =
             IF Resolves(token) /\ u \in DOMAIN store
               THEN Put(store, u,
                        Marshal([getUser(store, u) EXCEPT !.Sessions =
                                   SelectSeq(@, LAMBDA s : s.Token # token)]))
               ELSE store
  /\ calls' = calls + 1
  /\ UNCHANGED <<writer, pc, call, tx, clock, minted, hist>>

\* Lines 188-190: not implemented.
Logout(p, token) ==
  /\ CanCall(p)
  /\ LET c == NewCall("Logout", "", "", token)
     IN ReturnEarly(p, Result(c, New("not implemented"), EmptyToken, "", 0,
                                 "notimplemented"))

\* ----------------------------------------------------------------- Count
\* Lines 204-214: db.View, a read-only snapshot of the committed bucket; it
\* does not take the writer lock.
Count(p) ==
  /\ CanCall(p)
  /\ LET c == NewCall("Count", "", "", EmptyToken)
     IN ReturnEarly(p, Result(c, NoErr, EmptyToken, "", KeyN(store), ""))

\* ------------------------------------------------- end of db.Update
ReturnLeaksToken(c, t, err, cause) ==
  IF c.op = "RegisterInitial"
    THEN Result(c, err, EmptyToken, "", 0, cause)
  ELSE IF err # NoErr
    THEN Result(c, Wrap(err, "transaction failed"), t.token, "", 0, cause)
  ELSE IF c.op = "Login"
    THEN Result(c, NoErr, t.token, "", 0, "")
  ELSE Result(c, NoErr, EmptyToken, t.user, 0, "")

\* What each operation returns once db.Update has returned err.
Return(c, t, err, cause) ==
  IF c.op = "RegisterInitial"
    THEN Result(c, err, EmptyToken, "", 0, cause)
  ELSE IF err # NoErr
    THEN Result(c, Wrap(err, "transaction failed"), EmptyToken, "", 0, cause)
  ELSE IF c.op = "Login"
    THEN Result(c, NoErr, t.token, "", 0, "")
  ELSE Result(c, NoErr, EmptyToken, t.user, 0, "")

Finish(p, err, cause) ==
  /\ Release(p)
  /\ ret' = Return(call[p], tx[p], err, cause)
  /\ call' = [call EXCEPT ![p] = NoCall]
  /\ tx' = [tx EXCEPT ![p] = NoTx]
  /\ pc' = [pc EXCEPT ![p] = "idle"]
  /\ UNCHANGED <<clock, minted, calls>>

\* The closure returned nil and the commit went through.
Commit(p) ==
  /\ pc[p] = "commit"
  /\ tx[p].err = NoErr
  /\ store' = Apply(store, tx[p].puts)
  /\ Finish(p, NoErr, "")
  /\ okLogins' = IF call[p].op = "Login"
                   THEN Append(okLogins, [username |-> call[p].username,
                                          token |-> tx[p].token])
                   ELSE okLogins
  /\ registered' = IF call[p].op = "RegisterInitial"
                     THEN Append(registered, [username |-> call[p].username,
                                              password |-> call[p].password])
                     ELSE registered

\* The closure returned nil but the commit failed: bbolt rolls back.
CommitFail(p) ==
  /\ pc[p] = "commit"
  /\ tx[p].err = NoErr
  /\ Finish(p, New("commit failed"), "commit")
  /\ UNCHANGED <<store, hist>>

\* The closure returned an error: bbolt rolls back and returns it.
Rollback(p) ==
  /\ pc[p] = "commit"
  /\ tx[p].err # NoErr
  /\ Finish(p, tx[p].err, tx[p].cause)
  /\ UNCHANGED <<store, hist>>

\* Tokens a caller may present: garbage, tokens the generator minted, and
\* well-formed tokens it never minted (n = 0).
TokenArgs == {GarbageToken} \cup minted \cup {Token(u, 0) : u \in Usernames}

Next ==
  \/ \E p \in Procs, u \in UsernameArgs, pw \in RegisterPasswordArgs,
          hashOK \in BOOLEAN :
       RegisterInitial(p, u, pw, hashOK)
  \/ \E p \in Procs : RegisterInitialTx(p)
  \/ \E p \in Procs, u \in UsernameArgs, pw \in PasswordArgs : Login(p, u, pw)
  \/ \E p \in Procs, genOK \in BOOLEAN, n \in FreshN : LoginTx(p, genOK, n)
  \/ \E p \in Procs, t \in TokenArgs : CheckAccessToken(p, t)
  \/ \E p \in Procs, now \in clock..MaxClock : CheckAccessTokenTx(p, now)
  \/ \E p \in Procs, t \in TokenArgs : Logout(p, t)
  \/ \E p \in Procs : Count(p)
  \/ \E p \in Procs : Commit(p)
  \/ \E p \in Procs : CommitFail(p)
  \/ \E p \in Procs : Rollback(p)

Spec == Init /\ [][Next]_vars

\* The same program with a generator that may repeat tokens.
NextReuse ==
  \/ \E p \in Procs, u \in UsernameArgs, pw \in RegisterPasswordArgs,
          hashOK \in BOOLEAN :
       RegisterInitial(p, u, pw, hashOK)
  \/ \E p \in Procs : RegisterInitialTx(p)
  \/ \E p \in Procs, u \in UsernameArgs, pw \in PasswordArgs : Login(p, u, pw)
  \/ \E p \in Procs, genOK \in BOOLEAN, n \in AnyN : LoginTx(p, genOK, n)
  \/ \E p \in Procs, t \in TokenArgs : CheckAccessToken(p, t)
  \/ \E p \in Procs, now \in clock..MaxClock : CheckAccessTokenTx(p, now)
  \/ \E p \in Procs, t \in TokenArgs : Logout(p, t)
  \/ \E p \in Procs : Count(p)
  \/ \E p \in Procs : Commit(p)
  \/ \E p \in Procs : CommitFail(p)
  \/ \E p \in Procs : Rollback(p)

SpecReuse == Init /\ [][NextReuse]_vars

TypeOK ==
  /\ writer \in Procs \cup {NoProc}
  /\ \A p \in Procs : pc[p] \in {"idle", "register", "login", "check", "commit"}
  /\ calls \in 0..MaxCalls
  /\ clock \in 1..MaxClock

\* ======================================================== properties
Range(seq) == {seq[i] : i \in 1..Len(seq)}
StoredUser(b, u) == Unmarshal(b[u])
StoredTokens(b, u) ==
  [i \in 1..Len(StoredUser(b, u).Sessions) |-> StoredUser(b, u).Sessions[i].Token]
LoginsOf(u) == SelectSeq(okLogins, LAMBDA l : l.username = u)
Creds(c) == [username |-> c.username, password |-> c.password]
\* The step in which p's transaction ends and its call returns.
Returns(p) == pc[p] = "commit" /\ pc'[p] = "idle"
\* A step in which a call returns before any transaction.
EarlyReturn == ret' # NoRet /\ pc' = pc

\* Error kinds, as the caller can tell them apart.
IsConflict(err) == err = New("there are existing users")
IsValidationError(err) == err # NoErr /\ err[1] = "invalid parameters"
\* errors.Is(err, auth.ErrUnauthorized): the sentinel is the root of the chain.
IsUnauthorized(err) == err # NoErr /\ err[Len(err)] = ErrUnauthorized[1]

\* C1: starting from an empty store, the first RegisterInitial that reaches
\* the store (non-empty arguments, no hasher or store failure) succeeds and
\* Count() is then 1; every later RegisterInitial, whatever its credentials,
\* fails with the "there are existing users" conflict and Count() stays 1.
C1_FirstRegistrationOnly ==
  [][ \A p \in Procs :
        /\ ret'.call.op = "Count" =>
             ret'.count = (IF registered = <<>> THEN 0 ELSE 1)
        /\ (Returns(p) /\ call[p].op = "RegisterInitial"
              /\ ret'.cause # "commit") =>
             /\ ret'.err = (IF registered = <<>> THEN NoErr
                            ELSE New("there are existing users"))
             /\ IsConflict(ret'.err) = (registered # <<>>)
             /\ KeyN(store') = 1
             /\ Len(registered') = 1
    ]_vars

W_C1 ==
  /\ ret.call.op = "RegisterInitial"
  /\ IsConflict(ret.err)
  /\ Len(registered) = 1
  /\ ret.call.username # registered[1].username
  /\ KeyN(store) = 1

\* C2: under every interleaving of concurrent RegisterInitial calls no two
\* of them both see the bucket empty and both write: at most one closure at
\* a time holds a staged write, at most one call succeeds, and the bucket
\* never holds more than one user record.
C2_SingleBootstrap ==
  /\ KeyN(store) <= 1
  /\ Len(registered) <= 1
  /\ \A p, q \in Procs :
       ~(p # q /\ call[p].op = "RegisterInitial" /\ call[q].op = "RegisterInitial"
           /\ pc[p] = "commit" /\ pc[q] = "commit")
  /\ \A p \in Procs :
       (pc[p] = "commit" /\ call[p].op = "RegisterInitial" /\ tx[p].puts # NoPut)
         => bucketIsEmpty(store)

W_C2 ==
  \E p, q \in Procs :
    /\ p # q
    /\ pc[p] = "commit" /\ call[p].op = "RegisterInitial" /\ tx[p].puts # NoPut
    /\ pc[q] = "register"
    /\ call[p].username # call[q].username

\* C3: N successful Login calls for the same user, however they interleave,
\* return N distinct tokens, and the stored record holds exactly those N
\* sessions, one per returned token: no appended session is lost.
C3_NoLostLogin ==
  /\ \A i, k \in 1..Len(okLogins) : i # k => okLogins[i].token # okLogins[k].token
  /\ \A u \in Usernames :
       IF u \in DOMAIN store
         THEN /\ Len(StoredUser(store, u).Sessions) = Len(LoginsOf(u))
              /\ \A i \in 1..Len(LoginsOf(u)) :
                   StoredTokens(store, u)[i] = LoginsOf(u)[i].token
         ELSE LoginsOf(u) = <<>>
  /\ (ret.call.op = "Login" /\ ret.err = NoErr) =>
       [username |-> ret.call.username, token |-> ret.token] \in Range(okLogins)

W_C3 ==
  /\ ret.call.op = "Login" /\ ret.err = NoErr
  /\ Len(LoginsOf(ret.call.username)) = 2
  /\ Len(StoredUser(store, ret.call.username).Sessions) = 2
  /\ okLogins[1].token # okLogins[2].token

\* C4: a failing Login (validation, unknown user, wrong password, token
\* generation failure, failed commit) returns no token and leaves the bucket
\* exactly as it was; the stored sessions are always exactly the sessions
\* of the successful logins.
C4_FailedLoginNoEffect ==
  [][ /\ (ret'.call.op = "Login" /\ ret'.err # NoErr) =>
           /\ store' = store
           /\ ret'.token = EmptyToken
           /\ okLogins' = okLogins
      /\ \A u \in DOMAIN store' :
           Range(StoredTokens(store', u)) =
             {l.token : l \in {k \in Range(okLogins') : k.username = u}}
    ]_vars

W_C4 ==
  /\ ret.call.op = "Login" /\ ret.cause = "badpw"
  /\ okLogins # <<>>
  /\ Cardinality(minted) > Len(okLogins)

EmptyArg(c) == c.op = "RegisterInitial" /\ (c.username = "" \/ c.password = "")
C6_RegisterValidation ==
  [][ /\ \A p \in Procs : ~EmptyArg(call'[p])
      /\ EmptyArg(ret'.call) =>
           /\ EarlyReturn
           /\ IsValidationError(ret'.err)
           /\ store' = store
           /\ KeyN(store') = KeyN(store)
           /\ writer' = writer
           /\ tx' = tx
           /\ hist' = hist
    ]_vars

W_C6 ==
  /\ bucketIsEmpty(store)
  /\ ret.call.op = "RegisterInitial"
  /\ ret.call.username # "" /\ ret.call.password = ""
  /\ IsValidationError(ret.err)

\* C7: CheckAccessToken with a token the generator cannot resolve fails with
\* ErrUnauthorized itself and opens no transaction: nothing stored changes.
Unresolvable(c) == c.op = "CheckAccessToken" /\ ~Resolves(c.token)
C7_UnresolvableToken ==
  [][ /\ \A p \in Procs : ~Unresolvable(call'[p])
      /\ Unresolvable(ret'.call) =>
           /\ EarlyReturn
           /\ ret'.err = ErrUnauthorized
           /\ ret'.user = ""
           /\ store' = store
           /\ writer' = writer
           /\ tx' = tx
    ]_vars

W_C7 ==
  /\ ret.call.op = "CheckAccessToken" /\ ret.call.token = GarbageToken
  /\ ret.err = ErrUnauthorized
  /\ ~bucketIsEmpty(store)

Undifferentiated == {ErrUnauthorized, Wrap(ErrUnauthorized, "transaction failed")}
C9_LoginErrorsUndifferentiated ==
  (ret.call.op = "Login" /\ ret.cause \in {"nouser", "badpw"}) =>
    /\ IsUnauthorized(ret.err)
    /\ ret.err \in Undifferentiated

\* C10: every CheckAccessToken failure caused by the token (unresolvable,
\* resolving to no stored user, matching no session) is Unauthorized.
C10_TokenFailuresUnauthorized ==
  (ret.call.op = "CheckAccessToken"
     /\ ret.cause \in {"unresolvable", "nouser", "nosession"}) =>
    IsUnauthorized(ret.err)

\* C11: Logout(t) for a token t held by a session of the user it resolves to
\* removes that session: once Logout(t) has returned, no stored record holds
\* a session carrying t.
C11_LogoutRemovesSession ==
  (ret.call.op = "Logout") =>
    \A u \in DOMAIN store : ret.call.token \notin Range(StoredTokens(store, u))

\* C12: Logout always fails: for every token and in every state it returns
\* an error before any transaction, and bucket, writer lock, staged writes
\* and every session (token and lastSeen) are as before.
C12_LogoutAlwaysFails ==
  [][ /\ \A p \in Procs : call'[p].op # "Logout"
      /\ ret'.call.op = "Logout" =>
           /\ EarlyReturn
           /\ ret'.err = New("not implemented")
           /\ ret'.token = EmptyToken /\ ret'.user = ""
           /\ store' = store
           /\ writer' = writer
           /\ tx' = tx
           /\ hist' = hist
    ]_vars

\* Logout of a token held by a stored session that has been validated.
W_C12 ==
  /\ ret.call.op = "Logout" /\ ret.err # NoErr
  /\ Resolves(ret.call.token)
  /\ GetUsername(ret.call.token) \in DOMAIN store
  /\ \E s \in Range(StoredUser(store, GetUsername(ret.call.token)).Sessions) :
       s.Token = ret.call.token /\ s.LastSeen # ZeroTime

SessionsOf(b, u) == IF u \in DOMAIN b THEN StoredUser(b, u).Sessions ELSE <<>>
\* The step in which p's CheckAccessToken returns successfully.
CheckSucceeds(p) ==
  Returns(p) /\ call[p].op = "CheckAccessToken" /\ ret'.err = NoErr

LoginsIn(log, u) == SelectSeq(log, LAMBDA l : l.username = u)
\* The step in which p's Login returns successfully.
LoginSucceeds(p) == Returns(p) /\ call[p].op = "Login" /\ ret'.err = NoErr

\* C15: a successful Login appends exactly one session, holding the
\* returned token with lastSeen unset, at the end of the user's list and
\* changes nothing else (username, password hash, earlier sessions, other
\* keys); the stored sessions are in the order of the successful logins.
C15_LoginAppendsOneSession ==
  [][ \A p \in Procs : LoginSucceeds(p) =>
        LET u == call[p].username
            old == StoredUser(store, u)
            new == StoredUser(store', u)
        IN /\ DOMAIN store' = DOMAIN store
           /\ \A k \in DOMAIN store \ {u} : store'[k] = store[k]
           /\ new.Username = old.Username
           /\ new.Password = old.Password
           /\ new.Sessions =
                Append(old.Sessions, [Token |-> ret'.token, LastSeen |-> ZeroTime])
           /\ \A i \in 1..Len(new.Sessions) :
                new.Sessions[i].Token = LoginsIn(okLogins', u)[i].token
           /\ Len(new.Sessions) = Len(LoginsIn(okLogins', u))
    ]_vars

\* The second successful Login of a user whose first session has been
\* validated: the new session is last and the first keeps its lastSeen.
W_C15 ==
  /\ ret.call.op = "Login" /\ ret.err = NoErr
  /\ LET ss == SessionsOf(store, ret.call.username)
     IN /\ Len(ss) = 2
        /\ ss[2].Token = ret.token
        /\ ss[1].Token = LoginsOf(ret.call.username)[1].token
        /\ ss[1].LastSeen # ZeroTime

UnmatchedCheckReturns(p) ==
  /\ Returns(p) /\ call[p].op = "CheckAccessToken"
  /\ GetUsername(call[p].token) \in DOMAIN store
  /\ call[p].token \notin Range(StoredTokens(store, GetUsername(call[p].token)))

\* C17: CheckAccessToken with a token that resolves to a stored user but is
\* the token of none of that user's sessions fails with an error, returns
\* no user, and leaves the bucket exactly as it was: nothing was staged and
\* no lastSeen changed.
C17_UnmatchedTokenNoWrite ==
  [][ \A p \in Procs : UnmatchedCheckReturns(p) =>
        /\ ret'.err # NoErr
        /\ ret'.user = ""
        /\ tx[p].puts = NoPut
        /\ store' = store
    ]_vars

\* The refused token belongs to a user that has a session, under another
\* token.
W_C17 ==
  /\ ret.call.op = "CheckAccessToken" /\ ret.cause = "nosession"
  /\ ret.err = Wrap(New("invalid token"), "transaction failed")
  /\ SessionsOf(store, GetUsername(ret.call.token)) # <<>>
  /\ \A s \in Range(SessionsOf(store, GetUsername(ret.call.token))) :
       s.Token # ret.call.token /\ s.LastSeen = ZeroTime

====
